---- MODULE Spec2Model ----
(***************************************************************************)
(* Guest / authenticated cart reconciliation of the marketplace storefront *)
(* (frontend/store/cart-store.ts, frontend/lib/api-client.ts,              *)
(* frontend/app/cart/page.tsx, frontend/app/checkout/page.tsx, and the     *)
(* auth store, navbar, AuthProvider and product pages of src/unnamed).     *)
(***************************************************************************)
EXTENDS Integers, Sequences, FiniteSets, TLC

\* ------------------------------------------------------------------ bounds
SKUs == {"A", "B"}
MaxLineQty == 3        \* largest |quantity| a guest line reaches in the model
MaxQtyArg == 2         \* largest quantity argument passed to a store call
MaxAddCalls == 3       \* addGuestItem calls counted per SKU (history only)
MaxGuestCount == 2     \* largest item count of the guest cart filled through the pages
MaxRemoteCount == 2    \* largest item count of the server cart

\* quantity arguments of a direct store call: arbitrary integers, also <= 0
QtyArgs == (0 - 1) .. MaxQtyArg

\* ------------------------------------------------------------ catalogue
\* products priced in dimes, and one whose stored price is corrupt
TotalSkus == {"P", "Q", "R", "X"}

\* product.skus[0].id for the SKU code (the UUID the backend wants)
SkuId(s) ==
  CASE s = "A" -> "id-A"
    [] s = "B" -> "id-B"
    [] s = "P" -> "id-P"
    [] s = "Q" -> "id-Q"
    [] s = "R" -> "id-R"
    [] OTHER -> "id-X"
\* product.price, a decimal string
Price(s) ==
  CASE s = "A" -> "10.00"
    [] s = "B" -> "5.50"
    [] s = "P" -> "0.10"
    [] s = "Q" -> "0.20"
    [] s = "R" -> "0.30"
    [] OTHER -> "n/a"

\* GuestCartItem (cart-store.ts:4-13); display-only fields are left out
GuestCartItem(s, q) ==
  [sku |-> s, sku_id |-> SkuId(s), product_price |-> Price(s), quantity |-> q]

VARIABLES
  guestItems,        \* useCartStore.guestItems (in memory)
  guestStorage,      \* localStorage['guest-cart-storage'].state.guestItems
  renderedItems,     \* guestItems as of the cart page's last render
  user,              \* useAuthStore.user
  isAuthenticated,   \* useAuthStore.isAuthenticated
  authStorage,       \* localStorage['auth-storage'].state
  access_token,      \* localStorage['access_token']
  refresh_token,     \* localStorage['refresh_token']
  authCall,          \* the auth-store call in flight
  remoteCart,        \* the server's cart of the account
  cartCache,         \* react-query data of the ['cart'] query
  cartInvalidated,   \* the ['cart'] query was invalidated and not refetched yet
  cartMutation,      \* the remote cart mutation in flight
  checkoutMutation,  \* the checkout request in flight
  location,          \* the page the browser shows
  navigation,        \* the route of a router.push that has not committed yet
  form,              \* the checkout page's form state
  lastCall,          \* the handler that ran last, with its arguments
  request,           \* one request of the api client, followed step by step
  added              \* history: addGuestItem calls per SKU since the start

storeVars == <<guestItems, guestStorage>>
authVars == <<user, isAuthenticated, authStorage, access_token, refresh_token, authCall>>
remoteVars == <<remoteCart, cartCache, cartInvalidated, cartMutation, checkoutMutation>>
pageVars == <<location, navigation, form>>
ghostVars == <<added, request>>
vars == <<guestItems, guestStorage, renderedItems, user, isAuthenticated,
          authStorage, access_token, refresh_token, authCall, remoteCart,
          cartCache, cartInvalidated, cartMutation, checkoutMutation, location,
          navigation, form, lastCall, request,
          added>>

\* ------------------------------------------------------- sequence helpers
\* Array.prototype.find(i => i.sku === s) !== undefined
HasSku(items, s) == \E k \in 1..Len(items) : items[k].sku = s

\* the lines of a SKU (the store keeps at most one, see OneLinePerSku)
LinesOf(items, s) == SelectSeq(items, LAMBDA i : i.sku = s)

\* quantity of the first line of a SKU, 0 when there is none
QtyOf(items, s) == IF HasSku(items, s) THEN LinesOf(items, s)[1].quantity ELSE 0

RECURSIVE SumQuantity(_)
SumQuantity(items) ==
  IF items = <<>> THEN 0 ELSE items[1].quantity + SumQuantity(Tail(items))

\* --------------------------------------------------- cart-store.ts, pure
\* an addGuestItem that puts the line of a new SKU first
addGuestItemPrepending(items, item) ==
  IF HasSku(items, item.sku)
    THEN [k \in 1..Len(items) |->
            IF items[k].sku = item.sku
              THEN [items[k] EXCEPT !.quantity = items[k].quantity + item.quantity]
              ELSE items[k]]
    ELSE <<item>> \o items

\* an addGuestItem that overwrites the quantity of an existing line
addGuestItemOverwriting(items, item) ==
  IF HasSku(items, item.sku)
    THEN [k \in 1..Len(items) |->
            IF items[k].sku = item.sku
              THEN [items[k] EXCEPT !.quantity = item.quantity]
              ELSE items[k]]
    ELSE Append(items, item)

\* addGuestItem's state update (cart-store.ts:31-43)
addGuestItem(items, item) ==
  IF HasSku(items, item.sku)
    THEN [k \in 1..Len(items) |->
            IF items[k].sku = item.sku
              THEN [items[k] EXCEPT !.quantity = items[k].quantity + item.quantity]
              ELSE items[k]]
    ELSE Append(items, item)

\* a remove by splice(findIndex(...), 1): without a match the index is -1
\* and the last line goes
removeGuestItemSplice(items, s) ==
  IF HasSku(items, s) THEN SelectSeq(items, LAMBDA i : i.sku # s)
  ELSE SubSeq(items, 1, Len(items) - 1)

\* removeGuestItem's state update (cart-store.ts:47-49)
removeGuestItem(items, s) == SelectSeq(items, LAMBDA i : i.sku # s)

\* an update that adds the quantity to the line's
updateGuestItemQuantityAdditive(items, s, q) ==
  [k \in 1..Len(items) |->
     IF items[k].sku = s THEN [items[k] EXCEPT !.quantity = @ + q] ELSE items[k]]

\* updateGuestItemQuantity's state update (cart-store.ts:53-57)
updateGuestItemQuantity(items, s, q) ==
  [k \in 1..Len(items) |->
     IF items[k].sku = s THEN [items[k] EXCEPT !.quantity = q] ELSE items[k]]

\* a clear that leaves the first line in the cart
clearGuestCartButFirst(items) == IF items = <<>> THEN <<>> ELSE <<items[1]>>

\* clearGuestCart's state update (cart-store.ts:60-62)
clearGuestCart(items) == <<>>

\* getGuestItemCount (cart-store.ts:70-72)
getGuestItemCount(items) == SumQuantity(items)

\* JavaScript numbers as far as prices need them: an IEEE-754 double, or NaN.
\* The double is written v cents + d units, the unit being 2^-60 of a cent,
\* so that every double from one cent up is a pair of integers; v is the
\* decimal amount the arithmetic would give without rounding.
Num(v) == [nan |-> FALSE, v |-> v, d |-> 0]
NaN == [nan |-> TRUE, v |-> 0, d |-> 0]

\* (x * 2^k) mod m, six doublings at a time while k allows
RECURSIVE MulPow2Mod(_, _, _)
MulPow2Mod(x, k, m) ==
  IF k = 0 THEN x % m
  ELSE IF k >= 6 THEN MulPow2Mod((64 * x) % m, k - 6, m)
  ELSE MulPow2Mod((2 * x) % m, k - 1, m)

\* whether v cents + d units is at least 2^(j-8)
AtLeastPow2(v, d, j) ==
  \/ 128 * v > 100 * 2^(j - 1)
  \/ 128 * v = 100 * 2^(j - 1) /\ d >= 0

\* the binade of a positive amount: the largest j with 2^(j-8) <= amount,
\* 0 below 2^-7
RECURSIVE Binade(_, _, _)
Binade(v, d, j) == IF AtLeastPow2(v, d, j + 1) THEN Binade(v, d, j + 1) ELSE j

\* round to nearest, ties to even, with a 53-bit significand: the doubles
\* of binade j are the multiples of 100 * 2^j units
RoundPositive(v, d) ==
  LET j == Binade(v, d, 0)
      M == 100 * 2^j
      n2 == (MulPow2Mod(v % (2 * M), 60, 2 * M) + d) % (2 * M)
      rho == n2 % M
      odd == n2 >= M
  IN IF j = 0 THEN [nan |-> FALSE, v |-> v, d |-> d]
     ELSE IF 2 * rho < M \/ (2 * rho = M /\ ~odd)
       THEN [nan |-> FALSE, v |-> v, d |-> d - rho]
       ELSE [nan |-> FALSE, v |-> v, d |-> d + M - rho]

\* the double nearest to v cents + d units
Round(v, d) ==
  IF v = 0 THEN [nan |-> FALSE, v |-> 0, d |-> d]
  ELSE IF v > 0 THEN RoundPositive(v, d)
  ELSE LET r == RoundPositive(0 - v, 0 - d)
       IN [nan |-> FALSE, v |-> 0 - r.v, d |-> 0 - r.d]

\* a + b and a * q of doubles, q an integer
Plus(a, b) == IF a.nan \/ b.nan THEN NaN ELSE Round(a.v + b.v, a.d + b.d)
Times(a, q) == IF a.nan THEN NaN ELSE Round(a.v * q, a.d * q)

\* the decimal strings of the model and their amounts in cents; any other
\* value (undefined, a corrupt string) does not start with a number
Cents(str) ==
  CASE str = "10.00" -> 1000
    [] str = "5.50" -> 550
    [] str = "19.99" -> 1999
    [] str = "0.10" -> 10
    [] str = "0.20" -> 20
    [] str = "0.30" -> 30
    [] OTHER -> 0 - 1

\* parseFloat of a price: the double nearest to the decimal, or NaN
ParseFloat(str) == IF Cents(str) < 0 THEN NaN ELSE Round(Cents(str), 0)

\* getGuestCartTotal (cart-store.ts:64-68)
RECURSIVE getGuestCartTotal(_)
getGuestCartTotal(items) ==
  IF items = <<>> THEN Num(0)
  ELSE Plus(getGuestCartTotal(SubSeq(items, 1, Len(items) - 1)),
            Times(ParseFloat(items[Len(items)].product_price),
                  items[Len(items)].quantity))

\* a set() that changes memory only
SetGuestItemsUnpersisted(new) ==
  /\ guestItems' = new
  /\ UNCHANGED guestStorage

\* set() of the persisted store: zustand's persist middleware wraps set so
\* that the partialized state is written to the storage in the same call
\* (cart-store.ts:25-27, 74-77)
SetGuestItems(new) ==
  /\ guestItems' = new
  /\ guestStorage' = new

\* a page load that starts the store from its initial state
HydrateGuestItemsEmpty == guestItems' = <<>>

\* hydration of the persisted store at creation (page load)
HydrateGuestItems == guestItems' = guestStorage

\* ------------------------------------------------------------ api-client.ts
None == [kind |-> "none"]
\* cart?.items is there: a cart was fetched and it has an items list
HasItems(cart) == cart.kind = "cart"
NoUser == "null"
TheUser == "u1"
\* What the server does with one request is the environment's choice: the
\* answer to the request, to the token refresh a 401 starts, and to the
\* re-sent request.
Answers ==
  { [first |-> "ok", refresh |-> "-", second |-> "-"],
    [first |-> "error", refresh |-> "-", second |-> "-"],
    [first |-> "401", refresh |-> "ok", second |-> "ok"],
    [first |-> "401", refresh |-> "ok", second |-> "error"],
    [first |-> "401", refresh |-> "ok", second |-> "401"],
    [first |-> "401", refresh |-> "error", second |-> "-"] }

\* the first answer: an endpoint that needs a credential answers 401 to a
\* request without a bearer token (request interceptor, api-client.ts:17-26)
ServerAnswer(needsAuth, access, ans) ==
  IF needsAuth /\ access = "none" THEN "401" ELSE ans.first

\* the response interceptor (api-client.ts:29-58): a 401 of a request that
\* was not retried yet refreshes the access token and re-sends the request;
\* a failed refresh clears both tokens and redirects to /auth/login
Intercept(needsAuth, access, refresh, ans) ==
  LET first == ServerAnswer(needsAuth, access, ans) IN
  IF first # "401"
    THEN [result |-> first, access |-> access, refresh |-> refresh, redirect |-> FALSE]
    ELSE IF refresh # "none"
      THEN IF ans.refresh = "ok"
        THEN [result |-> IF ans.second = "ok" THEN "ok" ELSE "error",
              access |-> "token", refresh |-> refresh, redirect |-> FALSE]
        ELSE [result |-> "error", access |-> "none", refresh |-> "none",
              redirect |-> TRUE]
      ELSE [result |-> "error", access |-> access, refresh |-> refresh,
            redirect |-> FALSE]

\* ------------------------------------------------------------ unnamed/part_015
\* set({user, isAuthenticated}) of the persisted auth store; partialize
\* keeps user and isAuthenticated (unnamed/part_015:82-85)
SetAuth(u, a) ==
  /\ user' = u
  /\ isAuthenticated' = a
  /\ authStorage' = [user |-> u, isAuthenticated |-> a]

\* AuthProvider's mount effect (unnamed/part_005:306-317): a stored access
\* token and isAuthenticated = false start fetchUser
AuthProviderEffect(token, authenticated) ==
  IF token # "none" /\ ~authenticated THEN "fetchUser" ELSE "idle"

\* the required fields of the guest form (checkout/page.tsx:129-131)
GuestFields ==
  {"guest_email", "recipient_name", "phone", "street_address", "city", "state",
   "postal_code"}

\* the checkout page's state as it mounts (checkout/page.tsx:24-41): no
\* address and no shipping rate selected, the guest fields empty
EmptyForm == [rate |-> FALSE, address |-> FALSE, guest |-> {}]

\* a rate and an address selected, every required guest field filled in
CompleteForm == [rate |-> TRUE, address |-> TRUE, guest |-> GuestFields]

\* the form states of the model: the guest fields all empty, all filled, or
\* all filled but one
Forms ==
  [rate : BOOLEAN, address : BOOLEAN,
   guest : {{}, GuestFields} \cup {GuestFields \ {f} : f \in GuestFields}]

\* the handler of a page ran: the browser shows that page, and the checkout
\* page, if it is another one, is unmounted
OnPage(p) ==
  /\ location' = p
  /\ navigation' = "none"
  /\ form' = IF p = "/checkout" THEN form ELSE EmptyForm

\* a full page load (window.location.href = ..., reload): both stores are
\* created anew and hydrated from localStorage, the query cache and the
\* requests in flight are gone, AuthProvider mounts
PageLoad(storedAuth, token) ==
  /\ HydrateGuestItems
  /\ UNCHANGED guestStorage
  /\ renderedItems' = guestStorage
  /\ user' = storedAuth.user
  /\ isAuthenticated' = storedAuth.isAuthenticated
  /\ cartCache' = None
  /\ cartInvalidated' = FALSE
  /\ cartMutation' = None
  /\ checkoutMutation' = None
  /\ navigation' = "none"
  /\ form' = EmptyForm
  /\ authCall' = AuthProviderEffect(token, storedAuth.isAuthenticated)

\* ------------------------------------------------------------ server cart
SkuOrder == <<"A", "B">>

\* a line of GET /orders/cart/
RemoteLine(s, q) ==
  [id |-> SkuId(s), sku |-> s, unit_price |-> Price(s), quantity |-> q]

RECURSIVE RemoteItemsFrom(_, _)
RemoteItemsFrom(rc, k) ==
  IF k > Len(SkuOrder) THEN <<>>
  ELSE IF rc[SkuOrder[k]] > 0
    THEN <<RemoteLine(SkuOrder[k], rc[SkuOrder[k]])>> \o RemoteItemsFrom(rc, k + 1)
    ELSE RemoteItemsFrom(rc, k + 1)

\* response.data of getCart (api-client.ts:142-144)
CartData(rc) == [kind |-> "cart", items |-> RemoteItemsFrom(rc, 1)]

EmptyRemoteCart == [s \in SKUs |-> 0]

\* item count of the server cart
RemoteCount(rc) == SumQuantity(RemoteItemsFrom(rc, 1))

\* what the server does with a cart mutation it accepts (add_item,
\* update_item and remove_item of /orders/cart/, api-client.ts:146-156);
\* update and remove of a line the cart does not hold change nothing
ServerApply(rc, m) ==
  IF m.kind = "add" THEN [rc EXCEPT ![m.sku] = @ + m.quantity]
  ELSE IF rc[m.sku] = 0 THEN rc
  ELSE IF m.kind = "update" THEN [rc EXCEPT ![m.sku] = m.quantity]
  ELSE [rc EXCEPT ![m.sku] = 0]

\* ------------------------------------------------------------------ state
\* lastCall: the handler that ran, its arguments, and whether it ended in a
\* full page load
Call(op, s, q) ==
  lastCall' = [op |-> op, sku |-> s, quantity |-> q, loaded |-> FALSE, body |-> "-"]

CallLoading(op) ==
  lastCall' = [op |-> op, sku |-> "-", quantity |-> 0, loaded |-> TRUE, body |-> "-"]

\* the call of a handler whose request went through the interceptor
CallAnswered(op, r) == IF r.redirect THEN CallLoading(op) ELSE Call(op, "-", 0)

\* no request of the client is followed
NoRequest ==
  [phase |-> "idle", needsAuth |-> FALSE, bearer |-> FALSE, _retry |-> FALSE,
   sends |-> 0, refreshes |-> 0, statuses |-> <<>>]

Init ==
  /\ guestItems = <<>>
  /\ guestStorage = <<>>
  /\ renderedItems = <<>>
  /\ user = NoUser
  /\ isAuthenticated = FALSE
  /\ authStorage = [user |-> NoUser, isAuthenticated |-> FALSE]
  /\ access_token = "none"
  /\ refresh_token = "none"
  /\ authCall = "idle"
  /\ remoteCart = EmptyRemoteCart
  /\ cartCache = None
  /\ cartInvalidated = FALSE
  /\ cartMutation = None
  /\ checkoutMutation = None
  /\ location = "/"
  /\ navigation = "none"
  /\ form = EmptyForm
  /\ lastCall = [op |-> "init", sku |-> "-", quantity |-> 0, loaded |-> TRUE,
                 body |-> "-"]
  /\ request = NoRequest
  /\ added = [s \in SKUs |-> [calls |-> 0, sum |-> 0]]

Abs(n) == IF n < 0 THEN 0 - n ELSE n

\* the shopper waits for the answer of one request before starting another
NoRequestInFlight ==
  authCall = "idle" /\ cartMutation = None /\ checkoutMutation = None

\* ------------------------------------------- the store's API, called directly
AddGuestItem(s, q) ==
  /\ Abs(QtyOf(guestItems, s) + q) <= MaxLineQty
  /\ SetGuestItems(addGuestItem(guestItems, GuestCartItem(s, q)))
  /\ Call("addGuestItem", s, q)
  /\ renderedItems' = guestItems'
  /\ UNCHANGED <<authVars, remoteVars, pageVars>>

RemoveGuestItem(s) ==
  /\ SetGuestItems(removeGuestItem(guestItems, s))
  /\ Call("removeGuestItem", s, 0)
  /\ renderedItems' = guestItems'
  /\ UNCHANGED <<authVars, remoteVars, pageVars>>

UpdateGuestItemQuantity(s, q) ==
  /\ SetGuestItems(updateGuestItemQuantity(guestItems, s, q))
  /\ Call("updateGuestItemQuantity", s, q)
  /\ renderedItems' = guestItems'
  /\ UNCHANGED <<authVars, remoteVars, pageVars>>

\* clearGuestCart (cart-store.ts:60-62); the call records the number of
\* lines it found
ClearGuestCart ==
  /\ SetGuestItems(clearGuestCart(guestItems))
  /\ Call("clearGuestCart", "-", Len(guestItems))
  /\ renderedItems' = guestItems'
  /\ UNCHANGED <<authVars, remoteVars, pageVars>>

\* the user reloads the page, or comes back from the payment site
Reload ==
  /\ PageLoad(authStorage, access_token)
  /\ CallLoading("reload")
  /\ location' = IF location = "external" THEN "/" ELSE location
  /\ UNCHANGED <<authStorage, access_token, refresh_token, remoteCart>>

\* addGuestItem with the call recorded in the history
CountedAddGuestItem(s, q) ==
  /\ added[s].calls < MaxAddCalls
  /\ AddGuestItem(s, q)
  /\ added' = [added EXCEPT ![s] = [calls |-> @.calls + 1, sum |-> @.sum + q]]

NextAdd ==
  \E s \in SKUs, q \in QtyArgs : CountedAddGuestItem(s, q) /\ UNCHANGED request

SpecAdd == Init /\ [][NextAdd]_vars

NextStore ==
  \/ \E s \in SKUs, q \in QtyArgs : AddGuestItem(s, q) /\ UNCHANGED ghostVars
  \/ \E s \in SKUs : RemoveGuestItem(s) /\ UNCHANGED ghostVars
  \/ \E s \in SKUs, q \in QtyArgs : UpdateGuestItemQuantity(s, q) /\ UNCHANGED ghostVars
  \/ ClearGuestCart /\ UNCHANGED ghostVars
  \/ Reload /\ UNCHANGED ghostVars

SpecStore == Init /\ [][NextStore]_vars

\* the store called for products of the dime catalogue
NextTotal ==
  \/ \E s \in TotalSkus, q \in 1..MaxQtyArg : AddGuestItem(s, q) /\ UNCHANGED ghostVars
  \/ \E s \in TotalSkus : RemoveGuestItem(s) /\ UNCHANGED ghostVars

SpecTotal == Init /\ [][NextTotal]_vars

\* ------------------------------------------------------------ auth flows
\* what the interceptor's window.location.href = '/auth/login' does after
\* a failed refresh (api-client.ts:49-53): the tokens are gone and /auth/login is loaded
RedirectToLogin ==
  /\ PageLoad(authStorage, "none")
  /\ location' = "/auth/login"
  /\ UNCHANGED <<authStorage, remoteCart>>

\* login (unnamed/part_015:33-34): the form of the login page is submitted
LoginSubmit ==
  /\ authCall = "idle"
  /\ NoRequestInFlight
  /\ authCall' = "login"
  /\ Call("login", "-", 0)
  /\ renderedItems' = guestItems
  /\ OnPage("/auth/login")
  /\ UNCHANGED <<storeVars, user, isAuthenticated, authStorage,
                 access_token, refresh_token, remoteVars>>

\* apiClient.login answers (api-client.ts:90-99, unnamed/part_015:36-42): the
\* tokens are stored and fetchUser starts, or login throws
LoginResponse(ans) ==
  /\ authCall = "login"
  /\ LET r == Intercept(FALSE, access_token, refresh_token, ans) IN
     IF r.result = "ok"
       THEN /\ access_token' = "token"
            /\ refresh_token' = "token"
            /\ authCall' = "login_fetchUser"
            /\ Call("loginTokens", "-", 0)
            /\ UNCHANGED <<storeVars, renderedItems, user, isAuthenticated,
                           authStorage, remoteVars, pageVars>>
       ELSE /\ access_token' = r.access
            /\ refresh_token' = r.refresh
            /\ CallAnswered("loginError", r)
            /\ IF r.redirect
                 THEN RedirectToLogin
                 ELSE /\ authCall' = "idle"
                      /\ UNCHANGED <<storeVars, renderedItems, user, isAuthenticated,
                                     authStorage, remoteVars, pageVars>>

\* the register form is submitted: the store's register awaits
\* apiClient.register (unnamed/part_015:45-48, api-client.ts:86-88)
RegisterSubmit ==
  /\ authCall = "idle"
  /\ NoRequestInFlight
  /\ authCall' = "register"
  /\ Call("register", "-", 0)
  /\ renderedItems' = guestItems
  /\ OnPage("/auth/register")
  /\ UNCHANGED <<storeVars, user, isAuthenticated, authStorage,
                 access_token, refresh_token, remoteVars>>

\* apiClient.register answers (unnamed/part_015:48-54): register goes on to
\* login with the new credentials, or throws
RegisterResponse(ans) ==
  /\ authCall = "register"
  /\ LET r == Intercept(FALSE, access_token, refresh_token, ans) IN
     /\ access_token' = r.access
     /\ refresh_token' = r.refresh
     /\ CallAnswered(IF r.result = "ok" THEN "registered" ELSE "registerError", r)
     /\ IF r.redirect
          THEN RedirectToLogin
          ELSE /\ authCall' = IF r.result = "ok" THEN "login" ELSE "idle"
               /\ UNCHANGED <<storeVars, renderedItems, user, isAuthenticated,
                              authStorage, remoteVars, pageVars>>

\* getProfile answers (unnamed/part_015:67-76), for login's fetchUser and for
\* AuthProvider's
FetchUserResponse(ans) ==
  /\ authCall \in {"fetchUser", "login_fetchUser"}
  /\ LET r == Intercept(TRUE, access_token, refresh_token, ans) IN
     /\ access_token' = r.access
     /\ refresh_token' = r.refresh
     /\ IF r.result = "ok"
          THEN /\ SetAuth(TheUser, TRUE)
               /\ authCall' = "idle"
               /\ Call(IF authCall = "login_fetchUser" THEN "loginDone" ELSE "fetchUserDone",
                       "-", 0)
               /\ UNCHANGED <<storeVars, renderedItems, remoteVars, pageVars>>
          ELSE /\ CallAnswered("fetchUserError", r)
               /\ IF r.redirect
                    THEN /\ authStorage' = [user |-> NoUser, isAuthenticated |-> FALSE]
                         /\ PageLoad(authStorage', r.access)
                         /\ location' = "/auth/login"
                         /\ UNCHANGED remoteCart
                    ELSE /\ SetAuth(NoUser, FALSE)
                         /\ authCall' = "idle"
                         /\ UNCHANGED <<storeVars, renderedItems, remoteVars, pageVars>>

\* Navbar.handleLogout starts logout (unnamed/part_002:51-52)
LogoutSubmit ==
  /\ authCall = "idle"
  /\ NoRequestInFlight
  /\ isAuthenticated
  /\ authCall' = "logout"
  /\ Call("logout", "-", 0)
  /\ UNCHANGED <<storeVars, renderedItems, user, isAuthenticated, authStorage,
                 access_token, refresh_token, remoteVars, pageVars>>

\* apiClient.logout (api-client.ts:101-107) returns or throws, logout's
\* finally block runs (unnamed/part_015:57-65), then handleLogout loads '/'
LogoutResponse(ans) ==
  /\ authCall = "logout"
  /\ LET r == Intercept(TRUE, access_token, refresh_token, ans) IN
     IF refresh_token = "none" \/ r.result = "ok"
       THEN access_token' = "none" /\ refresh_token' = "none"
       ELSE access_token' = r.access /\ refresh_token' = r.refresh
  /\ authStorage' = [user |-> NoUser, isAuthenticated |-> FALSE]
  /\ PageLoad(authStorage', access_token')
  /\ CallLoading("logoutDone")
  /\ location' = "/"
  /\ UNCHANGED remoteCart

\* ---------------------------------------------------------- the cart query
\* the ['cart'] query fetches (cart/page.tsx:27-34, unnamed/part_002:29-37):
\* enabled while isAuthenticated; on mount, on invalidation, every 30 s
FetchCart(ans) ==
  /\ isAuthenticated
  /\ LET r == Intercept(TRUE, access_token, refresh_token, ans) IN
     /\ access_token' = r.access
     /\ refresh_token' = r.refresh
     /\ CallAnswered(IF r.result = "ok" THEN "fetchCart" ELSE "fetchCartError", r)
     /\ IF r.redirect
          THEN RedirectToLogin
          ELSE /\ cartCache' = IF r.result = "ok" THEN CartData(remoteCart) ELSE cartCache
               /\ cartInvalidated' = IF r.result = "ok" THEN FALSE ELSE cartInvalidated
               /\ UNCHANGED <<storeVars, renderedItems, user, isAuthenticated,
                              authStorage, authCall, remoteCart, cartMutation,
                              checkoutMutation, pageVars>>

\* ----------------------------------------------------------- add to cart
\* handleAddToCart of the home, flash-sale and product pages
\* (unnamed/part_006:517-539, unnamed/part_012:54-79, unnamed/part_011:42-61)
HandleAddToCart(s, q) ==
  /\ Call("handleAddToCart", "-", 0)
  /\ OnPage("/products")
  /\ IF isAuthenticated
       THEN /\ cartMutation = None
            /\ NoRequestInFlight
            /\ RemoteCount(remoteCart) + q <= MaxRemoteCount
            /\ cartMutation' = [kind |-> "add", sku |-> s, quantity |-> q]
            /\ renderedItems' = guestItems
            /\ UNCHANGED <<storeVars, authVars, remoteCart, cartCache,
                           cartInvalidated, checkoutMutation>>
       ELSE /\ SumQuantity(guestItems) + q <= MaxGuestCount
            /\ SetGuestItems(addGuestItem(guestItems, GuestCartItem(s, q)))
            /\ renderedItems' = guestItems'
            /\ UNCHANGED <<authVars, remoteVars>>

\* the undefined of a store field that does not exist: calling it throws a
\* TypeError out of the click handler, before anything else runs
CallUndefined == UNCHANGED <<storeVars, remoteVars>>

\* useCartStore((state) => state.addItem) of the products list
\* (unnamed/part_006:824-826): the store (cart-store.ts:8-15, 25-73) has no
\* addItem, so the selected value is undefined
StateAddItem(s) == CallUndefined

\* Add to Cart on a card of the products list (unnamed/part_006:845-868):
\* addToCart(...) of the selected store field whatever the regime, with no
\* remote call
ProductsPageHandleAddToCart(s) ==
  /\ Call("productsPageAddToCart", "-", 0)
  /\ OnPage("/products")
  /\ StateAddItem(s)
  /\ renderedItems' = guestItems'
  /\ UNCHANGED authVars

\* the lines of the fetched cart the authenticated cart page shows
CachedQty(s) ==
  IF ~HasItems(cartCache) THEN 0 ELSE QtyOf(cartCache.items, s)

\* handleUpdateQuantity (cart/page.tsx:52-57) from the +/- buttons of a
\* fetched line (cart/page.tsx:170-188): - is disabled at quantity <= 1
HandleUpdateQuantity(s, change) ==
  /\ isAuthenticated
  /\ CachedQty(s) > 0
  /\ change = 0 - 1 => CachedQty(s) > 1
  /\ cartMutation = None
  /\ NoRequestInFlight
  /\ RemoteCount(ServerApply(remoteCart,
                             [kind |-> "update", sku |-> s,
                              quantity |-> CachedQty(s) + change])) <= MaxRemoteCount
  /\ Call("handleUpdateQuantity", "-", 0)
  /\ OnPage("/cart")
  /\ cartMutation' = IF CachedQty(s) + change > 0
                       THEN [kind |-> "update", sku |-> s,
                             quantity |-> CachedQty(s) + change]
                       ELSE cartMutation
  /\ UNCHANGED <<storeVars, renderedItems, authVars, remoteCart, cartCache,
                 cartInvalidated, checkoutMutation>>

\* handleRemove (cart/page.tsx:59-61)
HandleRemove(s) ==
  /\ isAuthenticated
  /\ CachedQty(s) > 0
  /\ cartMutation = None
  /\ NoRequestInFlight
  /\ Call("handleRemove", "-", 0)
  /\ OnPage("/cart")
  /\ cartMutation' = [kind |-> "remove", sku |-> s, quantity |-> 0]
  /\ UNCHANGED <<storeVars, renderedItems, authVars, remoteCart, cartCache,
                 cartInvalidated, checkoutMutation>>

\* the server answers a cart mutation; onSuccess invalidates ['cart'],
\* onError shows a toast (cart/page.tsx:36-50, unnamed/part_006:494-504)
CartMutationResponse(ans) ==
  /\ cartMutation # None
  /\ LET r == Intercept(TRUE, access_token, refresh_token, ans) IN
     /\ access_token' = r.access
     /\ refresh_token' = r.refresh
     /\ CallAnswered(IF r.result = "ok" THEN "cartMutationSuccess"
                                         ELSE "cartMutationError", r)
     /\ IF r.redirect
          THEN RedirectToLogin
          ELSE /\ remoteCart' = IF r.result = "ok"
                                  THEN ServerApply(remoteCart, cartMutation)
                                  ELSE remoteCart
               /\ cartInvalidated' = IF r.result = "ok" THEN TRUE ELSE cartInvalidated
               /\ cartMutation' = None
               /\ UNCHANGED <<storeVars, renderedItems, user, isAuthenticated,
                              authStorage, authCall, cartCache, checkoutMutation,
                              pageVars>>

\* ---------------------------------------------------------------- checkout
\* the items the checkout page shows (checkout/page.tsx:168)
CheckoutItems ==
  IF isAuthenticated
    THEN IF ~HasItems(cartCache) THEN <<>> ELSE cartCache.items
    ELSE guestItems

\* the shopper is on the checkout page and edits the form: selects or
\* clears an address and a shipping rate, types into the guest fields
\* (checkout/page.tsx:24-46).  The page shows the form only for a cart with
\* lines (checkout/page.tsx:170-173).
FillCheckoutForm(f) ==
  /\ CheckoutItems # <<>>
  /\ f # form \/ location # "/checkout"
  /\ location' = "/checkout"
  /\ navigation' = "none"
  /\ form' = f
  /\ renderedItems' = guestItems
  /\ Call("fillCheckoutForm", "-", 0)
  /\ UNCHANGED <<storeVars, authVars, remoteVars>>

\* whether handleCheckout finds the data of the regime (checkout/page.tsx:
\* 106-109, 129-134)
CheckoutDataPresent ==
  IF isAuthenticated THEN form.address ELSE form.guest = GuestFields

\* a Place Order button that a missing shipping rate does not disable
PlaceOrderEnabledWithoutRate ==
  /\ checkoutMutation = None
  /\ CheckoutDataPresent

\* the Place Order button is not disabled (checkout/page.tsx:519-531)
PlaceOrderEnabled ==
  /\ checkoutMutation = None
  /\ form.rate
  /\ IF isAuthenticated THEN form.address ELSE form.guest = GuestFields

\* a payload whose entries carry the SKU code for the SKU's id
GuestPayloadItemsBySkuCode(items) ==
  [k \in 1..Len(items) |-> [sku_id |-> items[k].sku, quantity |-> items[k].quantity]]

\* items of the guest checkout payload (checkout/page.tsx:143-146)
GuestPayloadItems(items) ==
  [k \in 1..Len(items) |-> [sku_id |-> items[k].sku_id, quantity |-> items[k].quantity]]

\* a click on Place Order: handleCheckout (checkout/page.tsx:103-153) checks
\* the data of the regime and starts the checkout request
HandleCheckout ==
  /\ location = "/checkout"
  /\ PlaceOrderEnabled
  /\ NoRequestInFlight
  /\ CheckoutItems # <<>>
  /\ Call("handleCheckout", "-", 0)
  /\ checkoutMutation' =
       IF ~CheckoutDataPresent THEN checkoutMutation
       ELSE IF isAuthenticated
         THEN [kind |-> "checkout", is_guest |-> FALSE, items |-> <<>>]
         ELSE [kind |-> "checkout", is_guest |-> TRUE,
               items |-> GuestPayloadItems(guestItems)]
  /\ renderedItems' = guestItems
  /\ UNCHANGED <<storeVars, authVars, remoteCart, cartCache, cartInvalidated,
                 cartMutation, pageVars>>

\* an error handler that empties the guest cart
CheckoutOnErrorClearing == SetGuestItems(<<>>)

\* checkoutMutation.onError (checkout/page.tsx:96-100): a toast and a log
CheckoutOnError == UNCHANGED storeVars

\* a success handler that leaves the guest cart alone
CheckoutOnSuccessKeeping == UNCHANGED storeVars

\* checkoutMutation.onSuccess (checkout/page.tsx:68-74): clearGuestCart for a
\* guest; the ['cart'] query is not invalidated
CheckoutOnSuccess ==
  IF ~isAuthenticated
    THEN SetGuestItems(clearGuestCart(guestItems))
    ELSE UNCHANGED storeVars

\* response.data of a successful checkout as onSuccess reads it: with
\* checkout_url, with order_id, with both or with neither
CheckoutBodies == {"checkout_url", "order_id", "both", "neither"}

\* a failed request has no response.data for onSuccess
NoBody == "-"
\* the two bodies of the documented POST /checkout
DocumentedBodies == {"checkout_url", "order_id"}

HasCheckoutUrl(body) == body \in {"checkout_url", "both"}
HasOrderId(body) == body \in {"order_id", "both"}

\* a success handler that sends every shopper to the home page
CheckoutOutcomeAlwaysHome(body) ==
  IF HasCheckoutUrl(body) THEN "external"
  ELSE IF HasOrderId(body) THEN "/"
  ELSE "none"

\* where onSuccess sends the browser (checkout/page.tsx:76-94): to the
\* payment site by window.location.href, to a page of the app by
\* router.push, or nowhere
CheckoutOutcome(body) ==
  IF HasCheckoutUrl(body) THEN "external"
  ELSE IF HasOrderId(body) THEN (IF isAuthenticated THEN "/account/orders" ELSE "/")
  ELSE "none"

\* the server answers the checkout request.  A window.location.href to the
\* payment site ends the app: what is in memory is gone, and the stores are
\* hydrated from storage when the shopper comes back.
CheckoutResponse(ans, body) ==
  /\ checkoutMutation # None
  /\ LET r == Intercept(~checkoutMutation.is_guest, access_token, refresh_token, ans) IN
     /\ body = NoBody <=> r.result # "ok"
     /\ access_token' = r.access
     /\ refresh_token' = r.refresh
     /\ lastCall' = [op |-> IF r.result = "ok" THEN "checkoutSuccess" ELSE "checkoutError",
                     sku |-> "-", quantity |-> 0,
                     loaded |-> r.redirect \/ (r.result = "ok" /\ HasCheckoutUrl(body)),
                     body |-> body]
     /\ IF r.redirect
          THEN RedirectToLogin
          ELSE /\ IF r.result = "ok" THEN CheckoutOnSuccess ELSE CheckoutOnError
               /\ renderedItems' = guestItems'
               /\ remoteCart' = IF r.result = "ok" /\ ~checkoutMutation.is_guest
                                  THEN EmptyRemoteCart ELSE remoteCart
               /\ checkoutMutation' = None
               /\ IF r.result = "ok" /\ CheckoutOutcome(body) = "external"
                    THEN /\ location' = "external"
                         /\ navigation' = "none"
                         /\ form' = EmptyForm
                         /\ user' = authStorage.user
                         /\ isAuthenticated' = authStorage.isAuthenticated
                         /\ authCall' = AuthProviderEffect(r.access, authStorage.isAuthenticated)
                         /\ cartCache' = None
                         /\ cartInvalidated' = FALSE
                         /\ cartMutation' = None
                         /\ UNCHANGED authStorage
                    ELSE /\ navigation' =
                              IF r.result = "ok" /\ CheckoutOutcome(body) # "none"
                                THEN CheckoutOutcome(body) ELSE navigation
                         /\ UNCHANGED <<location, form, user, isAuthenticated,
                                        authStorage, authCall, cartCache,
                                        cartInvalidated, cartMutation>>

\* the checkout page renders without items (checkout/page.tsx:168-173):
\* router.push('/cart') and nothing shown
CheckoutPageGuard ==
  /\ location = "/checkout"
  /\ CheckoutItems = <<>>
  /\ navigation # "/cart"
  /\ navigation' = "/cart"
  /\ Call("checkoutPageGuard", "-", 0)
  /\ UNCHANGED <<storeVars, renderedItems, authVars, remoteVars, location, form>>

\* the router commits the pending navigation: the page of the route mounts
NavigationCommit ==
  /\ navigation # "none"
  /\ location' = navigation
  /\ navigation' = "none"
  /\ form' = EmptyForm
  /\ renderedItems' = guestItems
  /\ Call("navigate", "-", 0)
  /\ UNCHANGED <<storeVars, authVars, remoteVars>>

\* ----------------------------------------------------- the guest cart page
\* a guest control that is never disabled and a handler that sets whatever
\* quantity results
HandleGuestUpdateQuantityUnguarded(s, change) ==
  /\ ~isAuthenticated
  /\ HasSku(renderedItems, s)
  /\ SumQuantity(updateGuestItemQuantity(guestItems, s,
                                         QtyOf(renderedItems, s) + change)) <= MaxGuestCount
  /\ Call("handleGuestUpdateQuantity", s, change)
  /\ OnPage("/cart")
  /\ SetGuestItems(updateGuestItemQuantity(guestItems, s,
                                           QtyOf(renderedItems, s) + change))
  /\ UNCHANGED <<renderedItems, authVars, remoteVars>>

\* handleGuestUpdateQuantity (cart/page.tsx:63-68) from the +/- buttons of
\* a rendered line (cart/page.tsx:239-256): currentQty is the quantity the
\* line had when the page was rendered, - is disabled at quantity <= 1
HandleGuestUpdateQuantity(s, change) ==
  /\ ~isAuthenticated
  /\ HasSku(renderedItems, s)
  /\ change = 0 - 1 => QtyOf(renderedItems, s) > 1
  /\ SumQuantity(updateGuestItemQuantity(guestItems, s,
                                         QtyOf(renderedItems, s) + change)) <= MaxGuestCount
  /\ Call("handleGuestUpdateQuantity", s, change)
  /\ OnPage("/cart")
  /\ IF QtyOf(renderedItems, s) + change > 0
       THEN SetGuestItems(updateGuestItemQuantity(guestItems, s,
                                                  QtyOf(renderedItems, s) + change))
       ELSE UNCHANGED storeVars
  /\ UNCHANGED <<renderedItems, authVars, remoteVars>>

\* handleGuestRemove (cart/page.tsx:70-73)
HandleGuestRemove(s) ==
  /\ ~isAuthenticated
  /\ HasSku(renderedItems, s)
  /\ Call("handleGuestRemove", "-", 0)
  /\ OnPage("/cart")
  /\ SetGuestItems(removeGuestItem(guestItems, s))
  /\ UNCHANGED <<renderedItems, authVars, remoteVars>>

\* React commits the re-render of the cart page that the store update
\* scheduled.  A handler of another page leaves the cart page unmounted, and
\* its next mount renders the store as it is then.
RenderCartPage ==
  /\ renderedItems # guestItems
  /\ renderedItems' = guestItems
  /\ Call("render", "-", 0)
  /\ UNCHANGED <<storeVars, authVars, remoteVars, pageVars>>

\* ------------------------------------------------------------------- views
\* cart?.items of a page that uses the ['cart'] query
CachedItems == IF ~HasItems(cartCache) THEN <<>> ELSE cartCache.items

\* the reduce over the fetched lines (cart/page.tsx:78-80,
\* checkout/page.tsx:158-160)
RECURSIVE RemoteTotal(_)
RemoteTotal(items) ==
  IF items = <<>> THEN Num(0)
  ELSE Plus(RemoteTotal(SubSeq(items, 1, Len(items) - 1)),
            Times(ParseFloat(items[Len(items)].unit_price),
                  items[Len(items)].quantity))

\* items of the cart page (cart/page.tsx:87)
CartPageItems == IF isAuthenticated THEN CachedItems ELSE guestItems

\* calculateTotal of the cart page (cart/page.tsx:75-84)
CartPageTotal ==
  IF isAuthenticated
    THEN IF ~HasItems(cartCache) THEN Num(0) ELSE RemoteTotal(cartCache.items)
    ELSE getGuestCartTotal(guestItems)

\* the reduce over the guest lines of the checkout page
\* (checkout/page.tsx:161-163)
RECURSIVE GuestReduce(_)
GuestReduce(items) ==
  IF items = <<>> THEN Num(0)
  ELSE Plus(GuestReduce(SubSeq(items, 1, Len(items) - 1)),
            Times(ParseFloat(items[Len(items)].product_price),
                  items[Len(items)].quantity))

\* a checkout page that always totals the guest lines
CheckoutTotalOfGuest == GuestReduce(guestItems)

\* calculateTotal of the checkout page (checkout/page.tsx:155-166)
CheckoutTotal ==
  IF isAuthenticated
    THEN IF ~HasItems(cartCache) THEN Num(0) ELSE RemoteTotal(cartCache.items)
    ELSE GuestReduce(guestItems)

\* items.length of the cart page's order summary (cart/page.tsx:288)
CartPageItemCount == Len(CartPageItems)

\* items.length of the checkout page's "Order Items" header
\* (checkout/page.tsx:445)
CheckoutItemCount == Len(CheckoutItems)

\* a badge that counts the guest lines whoever is logged in
NavbarItemCountOfBoth == SumQuantity(CachedItems) + SumQuantity(guestItems)

\* guestCount and itemCount of the navbar (unnamed/part_002:39-45)
NavbarItemCount ==
  LET guestCount == IF ~isAuthenticated THEN SumQuantity(guestItems) ELSE 0 IN
  IF isAuthenticated THEN SumQuantity(CachedItems) ELSE guestCount

\* ------------------------------------------------- any body of GET /cart
\* setUser (unnamed/part_015:78-80)
SetUser(u) ==
  /\ SetAuth(u, u # NoUser)
  /\ Call("setUser", "-", 0)
  /\ UNCHANGED <<storeVars, renderedItems, access_token, refresh_token, authCall,
                 remoteVars, pageVars>>

\* a field the body does not have
Undefined == "undefined"

\* no line of a SKU, or one line, with or without its unit_price
LineShapes(s) ==
  {<<>>} \cup
  { <<[RemoteLine(s, q) EXCEPT !.unit_price = u]>> :
      q \in 1..MaxQtyArg, u \in {Price(s), Undefined} }

\* response.data of getCart as the pages take it (item: any): a body
\* without an items list, or a list of lines
CartShapes ==
  {[kind |-> "cartWithoutItems"]} \cup
  { [kind |-> "cart", items |-> a \o b] :
      a \in LineShapes("A"), b \in LineShapes("B") }

\* the ['cart'] query resolves with the body the server sent
\* (cart/page.tsx:27-34, checkout/page.tsx:48-55)
ReceiveCart(data) ==
  /\ isAuthenticated
  /\ cartCache' = data
  /\ cartInvalidated' = FALSE
  /\ Call("fetchCart", "-", 0)
  /\ UNCHANGED <<storeVars, renderedItems, authVars, remoteCart, cartMutation,
                 checkoutMutation, pageVars>>

NextShapes ==
  \/ \E u \in {NoUser, TheUser} : SetUser(u) /\ UNCHANGED ghostVars
  \/ \E data \in CartShapes : ReceiveCart(data) /\ UNCHANGED ghostVars
  \/ \E s \in SKUs, q \in 1..MaxQtyArg : AddGuestItem(s, q) /\ UNCHANGED ghostVars

SpecShapes == Init /\ [][NextShapes]_vars

\* ------------------------------------------------------------ the storefront
Changes == {0 - 1, 1}

\* ----------------------------------------- one request, step by step
\* this.client(config): the request interceptor attaches the bearer token
\* that is in storage (api-client.ts:17-26) and the request goes out
SendRequest(needsAuth) ==
  /\ request.phase \in {"idle", "resolved", "rejected"}
  /\ request' = [phase |-> "sent", needsAuth |-> needsAuth,
                 bearer |-> access_token # "none", _retry |-> FALSE,
                 sends |-> 1, refreshes |-> 0, statuses |-> <<>>]
  /\ Call("send", "-", 0)
  /\ UNCHANGED <<storeVars, renderedItems, authVars, remoteVars, pageVars>>

\* the interceptor's test of a failed response (api-client.ts:34) when the
\* _retry flag is not looked at
ShouldRefreshIgnoringRetry(status, retried) == status = "401"

\* the interceptor's test of a failed response (api-client.ts:34)
ShouldRefresh(status, retried) == status = "401" /\ ~retried

\* the response interceptor (api-client.ts:29-58) receives the answer to the
\* request or to its re-send: a response resolves; a 401 of a request not
\* yet retried marks it and, with a refresh token, posts the refresh; any
\* other error, and a 401 without refresh token, rejects
ServerResponds(status) ==
  /\ request.phase \in {"sent", "resent"}
  /\ request.needsAuth /\ ~request.bearer => status = "401"
  /\ request' =
       [request EXCEPT
          !.statuses = Append(@, status),
          !._retry = @ \/ ShouldRefresh(status, request._retry),
          !.refreshes = IF ShouldRefresh(status, request._retry)
                           /\ refresh_token # "none" THEN @ + 1 ELSE @,
          !.phase = IF status = "ok" THEN "resolved"
                    ELSE IF ShouldRefresh(status, request._retry)
                            /\ refresh_token # "none" THEN "refreshing"
                    ELSE "rejected"]
  /\ Call("respond", "-", 0)
  /\ UNCHANGED <<storeVars, renderedItems, authVars, remoteVars, pageVars>>

\* the refresh endpoint answers (api-client.ts:39-54): the new access token
\* is stored and the request is sent again, or the tokens are cleared, the
\* browser goes to /auth/login and the request rejects
RefreshResponds(ok) ==
  /\ request.phase = "refreshing"
  /\ IF ok
       THEN /\ request' = [request EXCEPT !.phase = "resent", !.bearer = TRUE,
                                          !.sends = @ + 1]
            /\ access_token' = "token"
            /\ Call("refreshed", "-", 0)
            /\ UNCHANGED <<storeVars, renderedItems, user, isAuthenticated,
                           authStorage, refresh_token, authCall, remoteVars,
                           pageVars>>
       ELSE /\ request' = [request EXCEPT !.phase = "rejected"]
            /\ access_token' = "none"
            /\ refresh_token' = "none"
            /\ CallLoading("refreshFailed")
            /\ RedirectToLogin

\* apiClient.login has stored a pair of tokens (api-client.ts:90-99)
StoreTokens ==
  /\ access_token = "none" \/ refresh_token = "none"
  /\ access_token' = "token"
  /\ refresh_token' = "token"
  /\ Call("storeTokens", "-", 0)
  /\ UNCHANGED <<storeVars, renderedItems, user, isAuthenticated, authStorage,
                 authCall, remoteVars, pageVars, request>>

\* clearTokens (api-client.ts:78-83), as apiClient.logout calls it
ClearTokens ==
  /\ access_token # "none" \/ refresh_token # "none"
  /\ access_token' = "none"
  /\ refresh_token' = "none"
  /\ Call("clearTokens", "-", 0)
  /\ UNCHANGED <<storeVars, renderedItems, user, isAuthenticated, authStorage,
                 authCall, remoteVars, pageVars, request>>

Statuses == {"ok", "error", "401"}

NextRequest ==
  \/ \E needsAuth \in BOOLEAN : SendRequest(needsAuth) /\ UNCHANGED added
  \/ \E status \in Statuses : ServerResponds(status) /\ UNCHANGED added
  \/ \E ok \in BOOLEAN : RefreshResponds(ok) /\ UNCHANGED added
  \/ StoreTokens /\ UNCHANGED added
  \/ ClearTokens /\ UNCHANGED added

SpecRequest == Init /\ [][NextRequest]_vars

\* the authentication transitions, with the Add to Cart buttons of both
\* regimes around them
NextAuth ==
  \/ \E s \in SKUs, q \in 1..MaxQtyArg : HandleAddToCart(s, q) /\ UNCHANGED ghostVars
  \/ \E s \in SKUs : ProductsPageHandleAddToCart(s) /\ UNCHANGED ghostVars
  \/ Reload /\ UNCHANGED ghostVars
  \/ RegisterSubmit /\ UNCHANGED ghostVars
  \/ \E ans \in Answers : RegisterResponse(ans) /\ UNCHANGED ghostVars
  \/ LoginSubmit /\ UNCHANGED ghostVars
  \/ \E ans \in Answers : LoginResponse(ans) /\ UNCHANGED ghostVars
  \/ \E ans \in Answers : FetchUserResponse(ans) /\ UNCHANGED ghostVars
  \/ LogoutSubmit /\ UNCHANGED ghostVars
  \/ \E ans \in Answers : LogoutResponse(ans) /\ UNCHANGED ghostVars
  \/ \E ans \in Answers : FetchCart(ans) /\ UNCHANGED ghostVars
  \/ \E ans \in Answers : CartMutationResponse(ans) /\ UNCHANGED ghostVars

SpecAuth == Init /\ [][NextAuth]_vars

\* the fetched carts the checkout page is entered with
CheckoutCarts ==
  { [kind |-> "cart", items |-> <<>>],
    [kind |-> "cart", items |-> <<RemoteLine("A", 1)>>] }

\* the checkout page with every state of its form, for a shopper of either
\* regime
NextCheckout ==
  \/ \E u \in {NoUser, TheUser} : SetUser(u) /\ UNCHANGED ghostVars
  \/ StoreTokens /\ UNCHANGED added
  \/ ClearTokens /\ UNCHANGED added
  \/ \E data \in CheckoutCarts : ReceiveCart(data) /\ UNCHANGED ghostVars
  \/ \E s \in {"A"} : AddGuestItem(s, 1) /\ UNCHANGED ghostVars
  \/ \E f \in Forms : FillCheckoutForm(f) /\ UNCHANGED ghostVars
  \/ HandleCheckout /\ UNCHANGED ghostVars
  \/ \E ans \in Answers, body \in CheckoutBodies \cup {NoBody} :
       CheckoutResponse(ans, body) /\ UNCHANGED ghostVars
  \/ CheckoutPageGuard /\ UNCHANGED ghostVars
  \/ NavigationCommit /\ UNCHANGED ghostVars

SpecCheckout == Init /\ [][NextCheckout]_vars

Next ==
  \/ \E s \in SKUs, q \in 1..MaxQtyArg : HandleAddToCart(s, q) /\ UNCHANGED ghostVars
  \/ \E s \in SKUs, c \in Changes : HandleGuestUpdateQuantity(s, c) /\ UNCHANGED ghostVars
  \/ \E s \in SKUs : HandleGuestRemove(s) /\ UNCHANGED ghostVars
  \/ RenderCartPage /\ UNCHANGED ghostVars
  \/ Reload /\ UNCHANGED ghostVars
  \/ LoginSubmit /\ UNCHANGED ghostVars
  \/ \E ans \in Answers : LoginResponse(ans) /\ UNCHANGED ghostVars
  \/ \E ans \in Answers : FetchUserResponse(ans) /\ UNCHANGED ghostVars
  \/ LogoutSubmit /\ UNCHANGED ghostVars
  \/ \E ans \in Answers : LogoutResponse(ans) /\ UNCHANGED ghostVars
  \/ \E ans \in Answers : FetchCart(ans) /\ UNCHANGED ghostVars
  \/ \E s \in SKUs, c \in Changes : HandleUpdateQuantity(s, c) /\ UNCHANGED ghostVars
  \/ \E s \in SKUs : HandleRemove(s) /\ UNCHANGED ghostVars
  \/ \E ans \in Answers : CartMutationResponse(ans) /\ UNCHANGED ghostVars
  \/ \E f \in {CompleteForm} : FillCheckoutForm(f) /\ UNCHANGED ghostVars
  \/ HandleCheckout /\ UNCHANGED ghostVars
  \/ \E ans \in Answers, body \in DocumentedBodies \cup {NoBody} :
       CheckoutResponse(ans, body) /\ UNCHANGED ghostVars
  \/ CheckoutPageGuard /\ UNCHANGED ghostVars
  \/ NavigationCommit /\ UNCHANGED ghostVars

Spec == Init /\ [][Next]_vars

\* the session of a shopper who never logs in
NextGuest ==
  \/ \E s \in SKUs, q \in 1..MaxQtyArg : HandleAddToCart(s, q) /\ UNCHANGED ghostVars
  \/ \E s \in SKUs, c \in Changes : HandleGuestUpdateQuantity(s, c) /\ UNCHANGED ghostVars
  \/ \E s \in SKUs : HandleGuestRemove(s) /\ UNCHANGED ghostVars
  \/ RenderCartPage /\ UNCHANGED ghostVars
  \/ Reload /\ UNCHANGED ghostVars
  \/ \E f \in {CompleteForm} : FillCheckoutForm(f) /\ UNCHANGED ghostVars
  \/ HandleCheckout /\ UNCHANGED ghostVars
  \/ \E ans \in Answers, body \in DocumentedBodies \cup {NoBody} :
       CheckoutResponse(ans, body) /\ UNCHANGED ghostVars
  \/ CheckoutPageGuard /\ UNCHANGED ghostVars
  \/ NavigationCommit /\ UNCHANGED ghostVars

SpecGuest == Init /\ [][NextGuest]_vars

\* ================================================================= claims

\* C1: starting from an empty guest cart, after any sequence of addGuestItem
\* calls every SKU that was added has exactly one line, and that line's
\* quantity is the sum of the quantities of the calls made for the SKU.
C1_AddAccumulates ==
  \A s \in SKUs :
    added[s].calls > 0 =>
      /\ Len(LinesOf(guestItems, s)) = 1
      /\ LinesOf(guestItems, s)[1].quantity = added[s].sum

\* both SKUs were added, one of them three times with different quantities
C1_Witness ==
  /\ added["A"].calls = 3
  /\ added["A"].sum = 3
  /\ added["B"].calls = 1
  /\ Len(guestItems) = 2

\* C2: updateGuestItemQuantity(sku, q) with q <= 0 leaves the cart that
\* removeGuestItem(sku) leaves: the line of the SKU is gone.
C2_UpdateNonPositiveRemoves ==
  [][(lastCall'.op = "updateGuestItemQuantity" /\ lastCall'.quantity <= 0)
       => guestItems' = removeGuestItem(guestItems, lastCall'.sku)]_vars

\* C3: every line of the guest cart, in memory and as persisted, has a
\* quantity >= 1, whatever integers the store's functions are called with.
C3_QuantityAtLeastOne ==
  /\ \A k \in 1..Len(guestItems) : guestItems[k].quantity >= 1
  /\ \A k \in 1..Len(guestStorage) : guestStorage[k].quantity >= 1

\* C8: when a guest cart mutation has returned, the persisted collection is
\* the one in memory, and a reload restores the state the last call left.
C8_PersistedOnReturn ==
  /\ [](guestStorage = guestItems)
  /\ [][lastCall'.op = "reload" => guestItems' = guestItems]_vars

\* a reload after a mutation that left a line in the cart
C8_Witness ==
  /\ lastCall.op = "reload"
  /\ guestItems # <<>>
  /\ guestStorage = guestItems

\* C4: merge on login.  When a login completes, every guest line whose
\* add-to-remote-cart call was confirmed is in the server cart and gone
\* from the guest cart, and the guest cart keeps the lines whose call
\* failed.  login reports no failed call, so every line the guest cart held
\* counts as confirmed.
C4_MergeOnLogin ==
  [][lastCall'.op = "loginDone" =>
       \A s \in SKUs :
         HasSku(guestItems, s) =>
           /\ ~HasSku(guestItems', s)
           /\ remoteCart'[s] >= QtyOf(guestItems, s)]_vars

\* C5: after a logout the guest cart is empty.
C5_EmptyAfterLogout ==
  lastCall.op = "logoutDone" => guestItems = <<>>

\* C6: the items, subtotal and badge count of the cart page, the checkout
\* page and the navbar come from guestItems exactly when isAuthenticated is
\* false and from the fetched cart exactly when it is true.
C6_OneAuthoritativeSource ==
  /\ ~isAuthenticated =>
       /\ CartPageItems = guestItems
       /\ CheckoutItems = guestItems
       /\ CartPageTotal = getGuestCartTotal(guestItems)
       /\ CheckoutTotal = getGuestCartTotal(guestItems)
       /\ NavbarItemCount = SumQuantity(guestItems)
  /\ isAuthenticated =>
       /\ CartPageItems = CachedItems
       /\ CheckoutItems = CachedItems
       /\ CartPageTotal = RemoteTotal(CachedItems)
       /\ CheckoutTotal = RemoteTotal(CachedItems)
       /\ NavbarItemCount = SumQuantity(CachedItems)

\* after a login, with lines in the guest cart and a different fetched cart
C6_Witness ==
  /\ isAuthenticated
  /\ guestItems # <<>>
  /\ CachedItems # <<>>
  /\ SumQuantity(CachedItems) # SumQuantity(guestItems)

\* C7: a page load that finds no credential in storage starts the session
\* as a guest.
C7_GuestWithoutCredential ==
  (lastCall.loaded /\ access_token = "none" /\ refresh_token = "none")
    => ~isAuthenticated

C10_FailureKeepsGuestCart ==
  [][lastCall'.op \in {"checkoutError", "cartMutationError"}
       => guestItems' = guestItems /\ guestStorage' = guestStorage]_vars

\* a guest's checkout failed and the lines are still in the cart
C10_Witness ==
  /\ lastCall.op = "checkoutError"
  /\ ~isAuthenticated
  /\ guestItems # <<>>

Reordered(items, p) == [k \in 1..Len(items) |-> items[p[k]]]

\* C13: the guest cart total does not depend on the order in which the
\* lines were added: every other order of the same lines gives the same
\* total.
C13_TotalOrderInvariant ==
  \A p \in Permutations(1..Len(guestItems)) :
    getGuestCartTotal(Reordered(guestItems, p)) = getGuestCartTotal(guestItems)

\* the lines of a cart whose price parses
ParsableLines(items) == SelectSeq(items, LAMBDA i : Cents(i.product_price) >= 0)

\* C14: the guest cart total is a number, the sum over the lines whose price
\* parses; a line with an unparsable price adds 0.
C14_UnparsablePriceCountsZero ==
  /\ ~getGuestCartTotal(guestItems).nan
  /\ getGuestCartTotal(guestItems) = getGuestCartTotal(ParsableLines(guestItems))

\* C15: the subtotal of the cart page and of the checkout page is a number
\* whatever the fetched cart looks like: a line without unit_price adds 0,
\* and so does a body without an items list.
C15_SubtotalAlwaysFinite ==
  /\ ~CartPageTotal.nan
  /\ ~CheckoutTotal.nan

\* C16: the cart page and the checkout page show the same subtotal for the
\* same cart and authentication status.
C16_CartAndCheckoutAgree == CartPageTotal = CheckoutTotal

\* a logged-in shopper with priced lines in the fetched cart and a guest
\* cart of another worth
C16_Witness ==
  /\ isAuthenticated
  /\ CachedItems # <<>>
  /\ guestItems # <<>>
  /\ ~CartPageTotal.nan
  /\ CartPageTotal # getGuestCartTotal(guestItems)
  /\ CartPageTotal = CheckoutTotal

\* C17: the navbar badge, the cart page's summary and the checkout page's
\* item header all show the sum of the quantities of the cart's lines.
C17_ItemCountIsSumOfQuantities ==
  /\ NavbarItemCount = SumQuantity(CartPageItems)
  /\ CartPageItemCount = SumQuantity(CartPageItems)
  /\ CheckoutItemCount = SumQuantity(CheckoutItems)

\* C18: right after clearGuestCart the cart has no lines: getGuestItemCount
\* is 0 and getGuestCartTotal is 0, whatever the cart held.
C18_ClearEmpties ==
  lastCall.op = "clearGuestCart" =>
    /\ guestItems = <<>>
    /\ getGuestItemCount(guestItems) = 0
    /\ getGuestCartTotal(guestItems) = Num(0)

\* clearGuestCart found two lines and left none
C18_Witness ==
  /\ lastCall.op = "clearGuestCart"
  /\ lastCall.quantity = 2
  /\ getGuestItemCount(guestItems) = 0
  /\ guestStorage = <<>>

\* C19: updateGuestItemQuantity(sku, q) with q > 0 sets the quantity of the
\* SKU's line to q and changes nothing else: the same lines in the same
\* order, every other field and every other line as before, and the whole
\* cart as before when it has no line of the SKU.
C19_UpdateSetsExactly ==
  [][(lastCall'.op = "updateGuestItemQuantity" /\ lastCall'.quantity > 0) =>
       /\ Len(guestItems') = Len(guestItems)
       /\ \A k \in 1..Len(guestItems) :
            IF guestItems[k].sku = lastCall'.sku
              THEN /\ guestItems'[k].quantity = lastCall'.quantity
                   /\ guestItems'[k].sku = guestItems[k].sku
                   /\ guestItems'[k].sku_id = guestItems[k].sku_id
                   /\ guestItems'[k].product_price = guestItems[k].product_price
              ELSE guestItems'[k] = guestItems[k]
       /\ ~HasSku(guestItems, lastCall'.sku) => guestItems' = guestItems]_vars

\* the second line of a cart was set from 1 to 2 and the first line kept 3
C19_Witness ==
  /\ lastCall.op = "updateGuestItemQuantity"
  /\ lastCall.quantity = 2
  /\ Len(guestItems) = 2
  /\ guestItems[2].sku = lastCall.sku
  /\ guestItems[2].quantity = 2
  /\ guestItems[1].quantity = 3

\* position of the first line of a SKU, 0 when there is none
IndexOf(items, s) ==
  IF HasSku(items, s)
    THEN CHOOSE k \in 1..Len(items) :
           items[k].sku = s /\ \A h \in 1..(k - 1) : items[h].sku # s
    ELSE 0

\* C20: removeGuestItem(sku) leaves no line of the SKU, keeps every other
\* line as it was and in the same order, leaves the cart as it was when it
\* has no line of the SKU, and a second removeGuestItem(sku) changes nothing.
C20_RemoveDeletesOnlyTheLine ==
  [][lastCall'.op = "removeGuestItem" =>
       /\ ~HasSku(guestItems', lastCall'.sku)
       /\ Len(guestItems') = Len(guestItems) - Len(LinesOf(guestItems, lastCall'.sku))
       /\ \A k \in 1..Len(guestItems) :
            guestItems[k].sku # lastCall'.sku =>
              \E h \in 1..Len(guestItems') : guestItems'[h] = guestItems[k]
       /\ \A t, u \in SKUs :
            (HasSku(guestItems', t) /\ HasSku(guestItems', u)) =>
              (IndexOf(guestItems', t) < IndexOf(guestItems', u)
                 <=> IndexOf(guestItems, t) < IndexOf(guestItems, u))
       /\ ~HasSku(guestItems, lastCall'.sku) => guestItems' = guestItems
       /\ removeGuestItem(guestItems', lastCall'.sku) = guestItems']_vars

\* the first of two lines was removed and the other line is the cart
C20_Witness ==
  /\ lastCall.op = "removeGuestItem"
  /\ lastCall.sku = "A"
  /\ Len(guestItems) = 1
  /\ guestItems[1].sku = "B"
  /\ guestItems[1].quantity = 2
  /\ guestStorage = guestItems

\* the SKUs of a cart's lines, in line order
SkusOf(items) == [k \in 1..Len(items) |-> items[k].sku]

\* C21: guest cart lines keep insertion order.  addGuestItem of a new SKU
\* puts its line after all the lines the cart had; addGuestItem of a SKU the
\* cart has and updateGuestItemQuantity keep the SKUs of the lines in place;
\* removeGuestItem keeps the remaining SKUs in their order.
C21_InsertionOrderKept ==
  [][/\ (lastCall'.op = "addGuestItem" /\ ~HasSku(guestItems, lastCall'.sku)) =>
          /\ Len(guestItems') = Len(guestItems) + 1
          /\ SubSeq(guestItems', 1, Len(guestItems)) = guestItems
          /\ guestItems'[Len(guestItems')].sku = lastCall'.sku
     /\ (lastCall'.op = "addGuestItem" /\ HasSku(guestItems, lastCall'.sku)) =>
          SkusOf(guestItems') = SkusOf(guestItems)
     /\ lastCall'.op = "updateGuestItemQuantity" =>
          SkusOf(guestItems') = SkusOf(guestItems)
     /\ lastCall'.op = "removeGuestItem" =>
          SkusOf(guestItems') =
            SelectSeq(SkusOf(guestItems), LAMBDA t : t # lastCall'.sku)]_vars

\* a second SKU was added to a cart and its line is the last one
C21_Witness ==
  /\ lastCall.op = "addGuestItem"
  /\ lastCall.sku = "A"
  /\ SkusOf(guestItems) = <<"B", "A">>
  /\ guestItems[2].quantity = lastCall.quantity

AuthOps ==
  {"register", "registered", "registerError", "login", "loginTokens",
   "loginDone", "loginError", "fetchUserDone", "fetchUserError", "logout",
   "logoutDone"}

\* C23: no step of login, register, fetchUser or logout modifies the guest
\* cart, in memory or in storage, and none starts a remote cart mutation or
\* changes the server's cart: the guest lines are not merged.
C23_AuthKeepsGuestCart ==
  [][lastCall'.op \in AuthOps =>
       /\ guestItems' = guestItems
       /\ guestStorage' = guestStorage
       /\ remoteCart' = remoteCart
       /\ cartMutation' = None]_vars

\* a guest with a line in the cart has logged in: the line is still in the
\* guest cart and the account's cart has none
C23_Witness ==
  /\ lastCall.op = "loginDone"
  /\ isAuthenticated
  /\ SkusOf(guestItems) = <<"A">>
  /\ remoteCart = EmptyRemoteCart

\* C24: the checkout request a guest's Place Order starts carries the guest
\* cart of that moment: is_guest is true and items has one entry per line
\* of guestItems, in the lines' order, with the line's sku_id and quantity.
C24_GuestPayloadIsTheCart ==
  [][(lastCall'.op = "handleCheckout" /\ ~isAuthenticated) =>
       /\ checkoutMutation' # None
       /\ checkoutMutation'.is_guest
       /\ Len(checkoutMutation'.items) = Len(guestItems)
       /\ \A k \in 1..Len(guestItems) :
            checkoutMutation'.items[k] =
              [sku_id |-> guestItems[k].sku_id, quantity |-> guestItems[k].quantity]]_vars

\* a guest with the lines B x1 and A x1, added in that order, has placed
\* the order
C24_Witness ==
  /\ lastCall.op = "handleCheckout"
  /\ ~isAuthenticated
  /\ SkusOf(guestItems) = <<"B", "A">>
  /\ checkoutMutation # None
  /\ checkoutMutation.items =
       <<[sku_id |-> SkuId("B"), quantity |-> 1], [sku_id |-> SkuId("A"), quantity |-> 1]>>

\* C25: the +/- controls of the cart page issue no update whose resulting
\* quantity is zero or negative, to the store or to the remote cart: in a
\* session of the storefront's pages every guest line has a quantity of at
\* least 1, and an update request in flight carries a quantity of at
\* least 1.
C25_ControlsNeverReachZero ==
  /\ \A k \in 1..Len(guestItems) : guestItems[k].quantity >= 1
  /\ (cartMutation # None /\ cartMutation.kind = "update") =>
        cartMutation.quantity >= 1

\* the - control of a guest line of quantity 2 was clicked and the line has
\* quantity 1
C25_Witness ==
  /\ lastCall.op = "handleGuestUpdateQuantity"
  /\ lastCall.quantity = 0 - 1
  /\ Len(guestItems) = 1
  /\ guestItems[1].quantity = 1

\* C26: every Add to Cart button dispatches by regime.  A click by an
\* authenticated shopper starts the remote add and leaves guestItems alone;
\* a click by a guest adds the line to guestItems and starts no remote call.
C26_AddRespectsRegime ==
  [][lastCall'.op \in {"handleAddToCart", "productsPageAddToCart"} =>
       IF isAuthenticated
         THEN /\ cartMutation' # None
              /\ cartMutation'.kind = "add"
              /\ guestItems' = guestItems
         ELSE /\ SumQuantity(guestItems') > SumQuantity(guestItems)
              /\ cartMutation' = cartMutation
              /\ remoteCart' = remoteCart]_vars

C28_GuestEndsOnHome ==
  [][(/\ lastCall.op = "checkoutSuccess"
      /\ lastCall.body = "order_id"
      /\ ~isAuthenticated
      /\ navigation = "/")
       => navigation' # "/cart"]_vars

\* C29: when logout() has completed, user is null, isAuthenticated is
\* false and neither token is in storage, whatever the server answered to
\* the logout call.
C29_LogoutRemovesSession ==
  [][lastCall'.op = "logoutDone" =>
       /\ user' = NoUser
       /\ ~isAuthenticated'
       /\ access_token' = "none"
       /\ refresh_token' = "none"]_vars

\* C30: the response interceptor refreshes the token and re-sends a request
\* at most once.  A request is sent at most twice and refreshed at most
\* once, the re-send is of a request marked _retry, no request is in flight
\* after its second answer, a request answered 401 both times is rejected,
\* and a request that got no answer but 401 is never resolved.
C30_AtMostOneRetry ==
  /\ request.sends <= 2
  /\ request.refreshes <= 1
  /\ request.sends = 2 => request._retry /\ request.refreshes = 1
  /\ Len(request.statuses) <= 2
  /\ Len(request.statuses) = 2 => request.phase \in {"resolved", "rejected"}
  /\ request.statuses = <<"401", "401">> => request.phase = "rejected"
  /\ (\A k \in 1..Len(request.statuses) : request.statuses[k] = "401") =>
        request.phase # "resolved"

\* a request was answered 401, the token was refreshed, the re-sent request
\* was answered 401 again, and the request is rejected after two sends
C30_Witness ==
  /\ request.statuses = <<"401", "401">>
  /\ request.phase = "rejected"
  /\ request.sends = 2
  /\ request.refreshes = 1
  /\ lastCall.op = "respond"

====
